---------------------------- MODULE Spec2Model ----------------------------
(***************************************************************************)
(* Academix scraper service: the ingestion orchestrator (scrapeAndSave,    *)
(* scrapeMultipleSources), the dedup/upsert engine (saveBooks) and the     *)
(* catalog tables they write through the pg pool.                          *)
(*                                                                         *)
(* The catalog lives in PostgreSQL.  saveBooks issues BEGIN on one pooled  *)
(* client and never sets a savepoint, so a statement that raises inside    *)
(* the transaction block leaves the transaction aborted: every later       *)
(* statement on that client raises too, and COMMIT ends the block as a     *)
(* ROLLBACK without raising.  Statements outside a transaction block       *)
(* (pool.query, or a client before BEGIN / after COMMIT) commit at once.   *)
(***************************************************************************)
EXTENDS Integers, Sequences, FiniteSets, TLC

VARIABLES
    db,             \* committed catalog: books, authors, categories, book_authors, book_categories
    sources,        \* table sources: <<[source_name, last_scraped]>>, source_id = index
    scraping_logs,  \* table scraping_logs, log_id = index
    tx,             \* the transaction of saveBooks' client: [open, aborted, work]
    web,            \* what the external source currently serves: the adapter's parsed items
    clock,          \* CURRENT_TIMESTAMP, one tick per run
    pc,             \* position of the request being served
    queue,          \* scrapeMultipleSources' parameter sources (one entry for scrapeBooks)
    mode,           \* "single" (scrapeBooks) or "multiple" (scrapeMultipleSources)
    i,              \* scrapeMultipleSources' loop index (1-based here)
    results,        \* scrapeMultipleSources' results array
    delays,         \* number of delay(2000) calls taken by the current request
    hist,           \* history: per finished run of the request, its spec and faults
    sourceId,       \* scrapeAndSave locals
    logId,
    books,          \* the adapter's result, saveBooks' parameter
    idx,            \* saveBooks' loop position (1-based)
    booksAdded,
    booksUpdated,
    error,          \* message of the exception in flight, NULL when none
    result,         \* the ScrapingResult scrapeAndSave returned, NoResult before
    pre,            \* history: the catalog as it stood when saveBooks was entered
    merged,         \* history: per processed candidate, the row it was written to (0: raised)
    faults,         \* history: which statements of the current run raised
    prev,           \* history: whether the previous run saved the content the web
                    \* still serves without a fault, and the rows it wrote to
    runs,           \* number of runs started
    peer,           \* a second request served at the same time: [pc, sourceId, logId, open]
    conn            \* history: pool clients of the run: [acquired, released]

vars == <<db, sources, scraping_logs, tx, web, clock, pc, queue, mode, i, results,
          delays, hist, sourceId, logId, books, idx, booksAdded, booksUpdated, error,
          result, pre, merged, faults, prev, runs, peer, conn>>

-----------------------------------------------------------------------------
(* Bounds *)

MaxBatch == 2        \* candidates an adapter returns in one fetch
MaxRuns == 2         \* runs of scrapeAndSave in a behaviour
MaxSources == 2      \* entries of one scrapeMultipleSources request
MaxAuthors == 2      \* names in the authors list of one ScrapedBook

GutenbergLimit == 20 \* scrapeProjectGutenberg: books.slice(0, 20)

-----------------------------------------------------------------------------
(* Values *)

NULL == "NULL"       \* SQL NULL, JS undefined / null
EMPTY == ""          \* the empty string: falsy in JS, not NULL in SQL

\* JS truthiness of an optional string: `if (book.isbn)`, `if (!text)`
Truthy(v) == v # NULL /\ v # EMPTY

\* String.prototype.trim on the names the model uses
Trim(s) == CASE s = " " -> EMPTY
             [] s = " A1" -> "A1"
             [] OTHER -> s

\* a field of a fetched item that is not a string: cleanText raises on it
NotText == "<not text>"

\* the texts the model uses, as blanks and words
Tokens(t) ==
    CASE t = EMPTY -> <<>>
      [] t = " " -> <<" ">>
      [] t = " T1 " -> <<" ", "T1", " ">>
      [] t = "T1  T2" -> <<"T1", " ", " ", "T2">>
      [] t = "T1 T2" -> <<"T1", " ", "T2">>
      [] OTHER -> <<t>>

\* \s
IsSpace(tok) == tok = " "

\* String.prototype.trim
RECURSIVE TrimTokens(_)
TrimTokens(ts) ==
    IF ts = <<>> THEN ts
    ELSE IF IsSpace(Head(ts)) THEN TrimTokens(Tail(ts))
    ELSE IF IsSpace(ts[Len(ts)]) THEN TrimTokens(SubSeq(ts, 1, Len(ts) - 1))
    ELSE ts

\* replace(/\s+/g, ' ')
RECURSIVE Collapse(_)
Collapse(ts) ==
    IF ts = <<>> THEN ts
    ELSE IF Len(ts) >= 2 /\ IsSpace(ts[1]) /\ IsSpace(ts[2]) THEN Collapse(Tail(ts))
    ELSE <<IF IsSpace(Head(ts)) THEN " " ELSE Head(ts)>> \o Collapse(Tail(ts))

\* the text that a sequence of blanks and words spells
RECURSIVE Join(_)
Join(ts) == IF ts = <<>> THEN EMPTY ELSE Head(ts) \o Join(Tail(ts))

\* cleanText: undefined for a falsy text, else trimmed, with every run of white
\* space replaced by one blank
CleanText(t) ==
    IF ~Truthy(t) THEN NULL ELSE Join(Collapse(TrimTokens(Tokens(t))))

\* the characters of the date texts the model uses
Chars(t) ==
    CASE t = "1999" -> <<"1", "9", "9", "9">>
      [] t = "199" -> <<"1", "9", "9">>
      [] t = "c1999" -> <<"c", "1", "9", "9", "9">>
      [] t = "12-1999" -> <<"1", "2", "-", "1", "9", "9", "9">>
      [] t = "19999" -> <<"1", "9", "9", "9", "9">>
      [] t = "978123-1999" -> <<"9", "7", "8", "1", "2", "3", "-", "1", "9", "9", "9">>
      [] OTHER -> <<"?">>

IsDigit(ch) == ch \in {"0", "1", "2", "3", "4", "5", "6", "7", "8", "9"}

\* the positions at which four digits in a row start
FourDigitsAt(cs) ==
    {p \in 1..(Len(cs) - 3) : \A q \in p..(p + 3) : IsDigit(cs[q])}

\* extractYear: dateString.match(/\d{4}/), parseInt(match[0]); the integer is
\* written as its four digits (no text of the model has a leading zero)
ExtractYear(t) ==
    LET cs == Chars(t)
        ps == FourDigitsAt(cs)
    IN  IF ~Truthy(t) \/ ps = {} THEN NULL
        ELSE LET p == CHOOSE x \in ps : \A y \in ps : x <= y
             IN  cs[p] \o cs[p + 1] \o cs[p + 2] \o cs[p + 3]

\* (variant: SET column = $n, without COALESCE)
Overwrite(x, y) == x

\* SQL COALESCE($n, column)
Coalesce(x, y) == IF x # NULL THEN x ELSE y

\* the four optional descriptive fields a detail profile fills
Detail(d) ==
    CASE d = "D1" -> [subtitle |-> "sub1", publisher |-> "pub1", pages |-> "p1",
                      description |-> "desc1", cover_image_url |-> "cov1"]
      [] d = "D2" -> [subtitle |-> NULL, publisher |-> "pub2", pages |-> NULL,
                      description |-> NULL, cover_image_url |-> NULL]
      [] OTHER    -> [subtitle |-> NULL, publisher |-> NULL, pages |-> NULL,
                      description |-> NULL, cover_image_url |-> NULL]

\* a ScrapedBook
Cand(t, isbn, y, d, as, cs) ==
    [title |-> t, subtitle |-> Detail(d).subtitle, isbn |-> isbn,
     publication_year |-> y, publisher |-> Detail(d).publisher,
     pages |-> Detail(d).pages, language |-> NULL,
     description |-> Detail(d).description,
     cover_image_url |-> Detail(d).cover_image_url, source_url |-> NULL,
     authors |-> as, categories |-> cs, pdf_url |-> NULL, download_url |-> NULL]

EmptyCatalog ==
    [books |-> <<>>, authors |-> <<>>, categories |-> <<>>,
     book_authors |-> {}, book_categories |-> {}]

NoTx == [open |-> FALSE, aborted |-> FALSE, work |-> EmptyCatalog]

\* nothing known about the previous run
NotClean == [clean |-> FALSE, merged |-> <<>>]

\* no second request
NoPeer == [pc |-> "none", sourceId |-> 0, logId |-> 0, open |-> FALSE]

\* no client taken from the pool yet
NoClient == [acquired |-> 0, released |-> 0]

\* const client = await pool.connect() has resolved
Acquired(c) == [c EXCEPT !.acquired = @ + 1]

\* (variant: a finally block that keeps the client)
NotReleased(c) == c

\* finally { client.release() }
Released(c) == [c EXCEPT !.released = @ + 1]

\* no ScrapingResult yet
NoResult ==
    [log_id |-> 0, source_id |-> 0, books_added |-> 0, books_updated |-> 0,
     errors |-> 0, status |-> "none", error_details |-> NULL]

-----------------------------------------------------------------------------
(* Catalog statements of saveBooks, as functions of the catalog they run on *)

\* SELECT book_id FROM books WHERE isbn = $1
ByIsbn(c, b) == {k \in 1..Len(c.books) : c.books[k].isbn = b.isbn}

\* SELECT book_id FROM books WHERE title = $1 AND publication_year = $2
ByTitleYear(c, b) ==
    {k \in 1..Len(c.books) : /\ c.books[k].title = b.title
                             /\ c.books[k].publication_year = b.publication_year}

\* SELECT book_id FROM books WHERE title = $1
ByTitle(c, b) == {k \in 1..Len(c.books) : c.books[k].title = b.title}

\* (variant: the cascade with the title-only query first)
FindBookTitleFirst(c, b) ==
    LET r0 == IF Truthy(b.title) THEN ByTitle(c, b) ELSE {}
        r1 == IF r0 = {} /\ Truthy(b.isbn) THEN ByIsbn(c, b) ELSE r0
    IN  IF r1 = {} /\ Truthy(b.title) /\ Truthy(b.publication_year)
        THEN ByTitleYear(c, b) ELSE r1

\* (variant: the cascade stops after the ISBN query)
FindBookByIsbnOnly(c, b) == IF Truthy(b.isbn) THEN ByIsbn(c, b) ELSE {}

\* (variant: the cascade without its title-only query)
FindBookNoTitleOnly(c, b) ==
    LET r1 == IF Truthy(b.isbn) THEN ByIsbn(c, b) ELSE {}
    IN  IF r1 = {} /\ Truthy(b.title) /\ Truthy(b.publication_year)
        THEN ByTitleYear(c, b) ELSE r1

\* STEP 1: the rows that can be existingBook (result.rows[0] of the first
\* query of the cascade that returns a row); empty when there is none
FindBook(c, b) ==
    LET r1 == IF Truthy(b.isbn) THEN ByIsbn(c, b) ELSE {}
        r2 == IF r1 = {} /\ Truthy(b.title) /\ Truthy(b.publication_year)
              THEN ByTitleYear(c, b) ELSE r1
    IN  IF r2 = {} /\ Truthy(b.title) THEN ByTitle(c, b) ELSE r2

\* (variant: an UPDATE that also sets publication_year and language)
UpdateBookAndYear(c, k, b, now) ==
    [c EXCEPT !.books[k] =
        [@ EXCEPT !.subtitle = Coalesce(b.subtitle, @),
                  !.publisher = Coalesce(b.publisher, @),
                  !.pages = Coalesce(b.pages, @),
                  !.description = Coalesce(b.description, @),
                  !.cover_image_url = Coalesce(b.cover_image_url, @),
                  !.isbn = Coalesce(b.isbn, @),
                  !.publication_year = Coalesce(b.publication_year, @),
                  !.language = Coalesce(b.language, @),
                  !.last_updated = now]]

\* STEP 2A: UPDATE books SET f = COALESCE($n, f), ... WHERE book_id = $7
UpdateBook(c, k, b, now) ==
    [c EXCEPT !.books[k] =
        [@ EXCEPT !.subtitle = Coalesce(b.subtitle, @),
                  !.publisher = Coalesce(b.publisher, @),
                  !.pages = Coalesce(b.pages, @),
                  !.description = Coalesce(b.description, @),
                  !.cover_image_url = Coalesce(b.cover_image_url, @),
                  !.isbn = Coalesce(b.isbn, @),
                  !.last_updated = now]]

\* STEP 2B: INSERT INTO books (...) VALUES (...) RETURNING book_id
InsertBook(c, b, sid, now) ==
    [c EXCEPT !.books = Append(@,
        [title |-> b.title, subtitle |-> b.subtitle, isbn |-> b.isbn,
         publication_year |-> b.publication_year, publisher |-> b.publisher,
         pages |-> b.pages,
         language |-> IF Truthy(b.language) THEN b.language ELSE "English",
         description |-> b.description, cover_image_url |-> b.cover_image_url,
         source_id |-> sid, source_url |-> b.source_url, pdf_url |-> b.pdf_url,
         download_url |-> b.download_url, last_updated |-> now])]

\* index of a name in a table of names, 0 when absent (result.rows[0])
IdOf(names, n) ==
    IF \E k \in 1..Len(names) : names[k] = n
    THEN CHOOSE k \in 1..Len(names) :
            names[k] = n /\ \A j \in 1..(k - 1) : names[j] # n
    ELSE 0

\* (variant: the SELECT without the INSERT after it)
SelectAuthor(c, n) == c

\* (variant: the INSERT without the SELECT before it)
CreateAuthor(c, n) == [c EXCEPT !.authors = Append(@, n)]

\* getOrCreateAuthor: the catalog afterwards
GetOrCreateAuthor(c, n) ==
    IF IdOf(c.authors, n) # 0 THEN c ELSE [c EXCEPT !.authors = Append(@, n)]

\* getOrCreateCategory: the catalog afterwards
GetOrCreateCategory(c, n) ==
    IF IdOf(c.categories, n) # 0 THEN c ELSE [c EXCEPT !.categories = Append(@, n)]

\* (variant: the INSERT without its ON CONFLICT clause, on a table without the key)
InsertBookAuthor(c, bookId, authorId, pos) ==
    [c EXCEPT !.book_authors =
        @ \cup {[book_id |-> bookId, author_id |-> authorId, author_position |-> pos]}]

\* INSERT INTO book_authors ... ON CONFLICT (book_id, author_id)
\*   DO UPDATE SET author_position = $3
UpsertBookAuthor(c, bookId, authorId, pos) ==
    [c EXCEPT !.book_authors =
        {r \in @ : ~(r.book_id = bookId /\ r.author_id = authorId)}
        \cup {[book_id |-> bookId, author_id |-> authorId, author_position |-> pos]}]

\* the loop of STEP 3 from position n on (names[n] is book.authors[n - 1])
RECURSIVE LinkAuthors(_, _, _, _)
LinkAuthors(c, bookId, names, n) ==
    IF n > Len(names) THEN c
    ELSE IF Truthy(names[n]) /\ Truthy(Trim(names[n]))
         THEN LET c1 == GetOrCreateAuthor(c, Trim(names[n]))
              IN  LinkAuthors(
                      UpsertBookAuthor(c1, bookId, IdOf(c1.authors, Trim(names[n])), n),
                      bookId, names, n + 1)
         ELSE LinkAuthors(c, bookId, names, n + 1)

\* STEP 3: DELETE FROM book_authors WHERE book_id = $1, then the loop
RelinkAuthors(c, bookId, names) ==
    IF Len(names) > 0
    THEN LinkAuthors(
            [c EXCEPT !.book_authors = {r \in @ : r.book_id # bookId}],
            bookId, names, 1)
    ELSE c

\* (variant: a relinking that replaces the links of the book)
ReplaceBookCategory(c, bookId, categoryId) ==
    [c EXCEPT !.book_categories =
        {r \in @ : r.book_id # bookId}
        \cup {[book_id |-> bookId, category_id |-> categoryId]}]

\* INSERT INTO book_categories ... ON CONFLICT (book_id, category_id) DO NOTHING
InsertBookCategory(c, bookId, categoryId) ==
    [c EXCEPT !.book_categories =
        @ \cup {[book_id |-> bookId, category_id |-> categoryId]}]

\* STEP 4: the loop over book.categories from position n on
RECURSIVE RelinkCategories(_, _, _, _)
RelinkCategories(c, bookId, names, n) ==
    IF n > Len(names) THEN c
    ELSE IF Truthy(names[n]) /\ Truthy(Trim(names[n]))
         THEN LET c1 == GetOrCreateCategory(c, Trim(names[n]))
              IN  RelinkCategories(
                      InsertBookCategory(c1, bookId, IdOf(c1.categories, Trim(names[n]))),
                      bookId, names, n + 1)
         ELSE RelinkCategories(c, bookId, names, n + 1)

\* the row STEP 2 writes: existingBook k, or the new row when k = 0
BookIdOf(c, k) == IF k # 0 THEN k ELSE Len(c.books) + 1

\* STEPs 2-4 for one candidate with existingBook k (0: none), nothing raising
SaveOne(c, b, k, sid, now) ==
    LET c2 == IF k # 0 THEN UpdateBook(c, k, b, now) ELSE InsertBook(c, b, sid, now)
        c3 == RelinkAuthors(c2, BookIdOf(c, k), b.authors)
    IN  RelinkCategories(c3, BookIdOf(c, k), b.categories, 1)

\* the statements one candidate may execute, by stage
HasNames(names) == \E n \in 1..Len(names) : Truthy(names[n]) /\ Truthy(Trim(names[n]))

Stages(b) ==
    (IF Truthy(b.isbn) \/ Truthy(b.title) THEN {"find"} ELSE {})
    \cup {"write"}
    \cup (IF Len(b.authors) > 0 THEN {"authors"} ELSE {})
    \cup (IF HasNames(b.categories) THEN {"categories"} ELSE {})

-----------------------------------------------------------------------------
(* Inputs *)

\* sequences over S of length 0..n
RECURSIVE SeqsUpTo(_, _)
SeqsUpTo(S, n) ==
    IF n = 0 THEN {<<>>}
    ELSE LET shorter == SeqsUpTo(S, n - 1)
         IN  shorter \cup {Append(q, x) : q \in {r \in shorter : Len(r) = n - 1}, x \in S}

\* the candidates the adapters yield when the orchestration is explored
Candidates ==
    {Cand("T1", "I1", NULL, "D0", <<"A1">>, <<"K1">>),
     Cand("T2", NULL, NULL, "D1", <<>>, <<>>)}

\* the candidates the adapters yield when the catalog is explored
CatalogCandidates ==
    {Cand("T1", "I1", NULL, "D1", <<>>, <<>>),
     Cand("T2", "I1", NULL, "D0", <<>>, <<>>),
     Cand("T2", "I2", NULL, "D0", <<>>, <<>>),
     Cand("T1", NULL, NULL, "D0", <<>>, <<>>),
     Cand("T1", NULL, "Y1", "D2", <<"A1">>, <<"K1">>),
     Cand("T1", NULL, "Y1", "D0", <<"A2", "A1">>, <<"K2">>),
     Cand("T2", NULL, "Y2", "D0", <<>>, <<>>)}

\* the candidates of a source whose items all carry an ISBN
IsbnCandidates ==
    {Cand(t, isbn, NULL, "D0", <<>>, <<>>) : t \in {"T1", "T2"}, isbn \in {"I1", "I2"}}

\* the names a ScrapedBook may carry in authors: plain, padded, blank, empty
AuthorNames == {"A1", "A2", " A1", " ", EMPTY}

AuthorLists == SeqsUpTo(AuthorNames, MaxAuthors)

\* the items a source may serve when the adapters are explored: titles that
\* are clean, padded, blank, missing, the placeholder, or not a string; blank
\* ISBN texts; date texts
DateTexts == {"1999", "199", "c1999", "12-1999", "19999", "978123-1999", EMPTY}

RawItems ==
    {Cand(t, NULL, NULL, "D0", <<>>, <<>>) :
        t \in {"T1", " T1 ", "T1  T2", " ", EMPTY, NULL, "Unknown Title", NotText}}
    \cup {Cand(t, " ", NULL, "D0", <<>>, <<>>) : t \in {"T1", "T2"}}
    \cup {Cand("T1", NULL, y, "D0", <<>>, <<>>) : y \in DateTexts}

\* a page of n entries with the titles G1 .. Gn
Page(n) == [k \in 1..n |-> Cand("G" \o ToString(k), NULL, NULL, "D0", <<>>, <<>>)]

\* pages with more entries than scrapeProjectGutenberg returns
LongPages ==
    {Page(GutenbergLimit + 1),
     <<Cand(NotText, NULL, NULL, "D0", <<>>, <<>>),
       Cand(" ", NULL, NULL, "D0", <<>>, <<>>)>> \o Page(GutenbergLimit + 1)}

RawContents == SeqsUpTo(RawItems, MaxBatch) \cup LongPages

Contents == SeqsUpTo(Candidates, MaxBatch)

CatalogContents == SeqsUpTo(CatalogCandidates, MaxBatch)

IsbnContents == SeqsUpTo(IsbnCandidates, MaxBatch)

OpenLibraryS1 == [type |-> "openlibrary", sourceName |-> "S1", customSelectors |-> FALSE]

\* the run specifications a request may carry
SourceSpecs ==
    {OpenLibraryS1,
     [type |-> "custom", sourceName |-> "S2", customSelectors |-> TRUE],
     [type |-> "custom", sourceName |-> "S2", customSelectors |-> FALSE],
     [type |-> "rss", sourceName |-> "S1", customSelectors |-> FALSE]}

\* scraperController.scrapeBooks: validTypes
ValidTypes == {"openlibrary", "googlebooks", "gutenberg", "custom"}

\* one request per adapter
AdapterSpecs ==
    {[type |-> t, sourceName |-> "S1", customSelectors |-> t = "custom"] : t \in ValidTypes}

\* the message of the Error an adapter throws: `${name} scraping failed: ...`
AdapterMessage(type) ==
    CASE type = "openlibrary" -> "Open Library scraping failed"
      [] type = "googlebooks" -> "Google Books scraping failed"
      [] type = "gutenberg" -> "Project Gutenberg scraping failed"
      [] OTHER -> "Custom website scraping failed"

DbMessage == "database error"

\* (variant: an adapter that yields every parsed item)
KeepAny(b) == TRUE

\* what an adapter keeps of the parsed items: `book.title && book.title !== 'Unknown Title'`
Keep(b) == Truthy(b.title) /\ b.title # "Unknown Title"

\* the parsing of the item raises, into the catch of the loop body
Raises(item) == item.title = NotText

\* the ScrapedBook an adapter builds from a fetched item, which carries the
\* fields the adapter reads: the title cleaned, or the placeholder; the year
\* through extractYear in scrapeGoogleBooks and scrapeCustomWebsite; the ISBN
\* cleaned in scrapeCustomWebsite
Parse(type, item) ==
    [item EXCEPT
        !.title = IF Truthy(CleanText(@)) THEN CleanText(@) ELSE "Unknown Title",
        !.publication_year = IF type \in {"googlebooks", "custom"}
                             THEN ExtractYear(@) ELSE @,
        !.isbn = IF type = "custom" THEN CleanText(@) ELSE @]

\* the loop of an adapter over the fetched items, from item n on
RECURSIVE ScrapeItems(_, _, _, _)
ScrapeItems(type, items, n, acc) ==
    IF n > Len(items) THEN acc
    ELSE IF Raises(items[n]) THEN ScrapeItems(type, items, n + 1, acc)
    ELSE IF Keep(Parse(type, items[n]))
         THEN ScrapeItems(type, items, n + 1, Append(acc, Parse(type, items[n])))
         ELSE ScrapeItems(type, items, n + 1, acc)

\* what the adapter returns: scrapeProjectGutenberg returns books.slice(0, 20)
Scraped(type, items) ==
    LET all == ScrapeItems(type, items, 1, <<>>)
    IN  IF type = "gutenberg" /\ Len(all) > GutenbergLimit
        THEN SubSeq(all, 1, GutenbergLimit) ELSE all

Fault(at, n) == [at |-> at, idx |-> n]

-----------------------------------------------------------------------------
(* Initial state: empty tables, no request in progress *)

RunLocals == <<sourceId, logId, books, idx, booksAdded, booksUpdated, error, result,
               pre, merged, faults>>

Tables == <<db, sources, scraping_logs, tx>>

Driver == <<queue, mode, i, results, delays, hist>>

InitWith(contents) ==
    /\ db = EmptyCatalog
    /\ sources = <<>>
    /\ scraping_logs = <<>>
    /\ tx = NoTx
    /\ web \in contents
    /\ clock = 0
    /\ pc = "idle"
    /\ queue = <<>>
    /\ mode = "single"
    /\ i = 0
    /\ results = <<>>
    /\ delays = 0
    /\ hist = <<>>
    /\ sourceId = 0
    /\ logId = 0
    /\ books = <<>>
    /\ idx = 0
    /\ booksAdded = 0
    /\ booksUpdated = 0
    /\ error = NULL
    /\ result = NoResult
    /\ pre = EmptyCatalog
    /\ merged = <<>>
    /\ faults = {}
    /\ prev = NotClean
    /\ runs = 0
    /\ peer = NoPeer
    /\ conn = NoClient

Init == InitWith(Contents)

-----------------------------------------------------------------------------
(* Requests: scraperController.scrapeBooks and .scrapeMultipleSources *)

\* scrapeAndSave is entered: its locals are fresh
StartRun ==
    /\ pc' = "source"
    /\ sourceId' = 0
    /\ logId' = 0
    /\ books' = <<>>
    /\ idx' = 0
    /\ booksAdded' = 0
    /\ booksUpdated' = 0
    /\ error' = NULL
    /\ result' = NoResult
    /\ pre' = db
    /\ merged' = <<>>
    /\ faults' = {}
    /\ runs' = runs + 1
    /\ clock' = clock + 1
    /\ conn' = NoClient

\* POST /scrape with a body that passes the controller's validation
ScrapeBooksOf(specs, maxRuns) ==
    /\ pc = "idle"
    /\ runs < maxRuns
    /\ \E s \in specs :
        /\ s.type \in ValidTypes
        /\ s.type = "custom" => s.customSelectors
        /\ queue' = <<s>>
    /\ mode' = "single"
    /\ i' = 1
    /\ results' = <<>>
    /\ delays' = 0
    /\ hist' = <<>>
    /\ StartRun
    /\ UNCHANGED <<Tables, peer, web, prev>>

ScrapeBooks == ScrapeBooksOf(SourceSpecs, MaxRuns)

\* POST /scrape-multiple: the controller only checks for a non-empty array
ScrapeMultipleSources ==
    /\ pc = "idle"
    /\ \E q \in SeqsUpTo(SourceSpecs, MaxSources) :
        /\ Len(q) > 0
        /\ runs + Len(q) <= MaxRuns
        /\ queue' = q
    /\ mode' = "multiple"
    /\ i' = 1
    /\ results' = <<>>
    /\ delays' = 0
    /\ hist' = <<>>
    /\ StartRun
    /\ UNCHANGED <<Tables, peer, web, prev>>

\* the external source publishes other content between two requests
WebChangesTo(contents, maxRuns) ==
    /\ pc = "idle"
    /\ runs > 0
    /\ runs < maxRuns
    /\ \E w \in contents : w # web /\ web' = w
    /\ prev' = NotClean
    /\ UNCHANGED <<Tables, peer, conn, clock, pc, Driver, RunLocals, runs>>

WebChanges == WebChangesTo(Contents, MaxRuns)

-----------------------------------------------------------------------------
(* scrapeAndSave *)

\* an exception reaches scrapeAndSave's catch block
Raise(msg, at) ==
    /\ error' = msg
    /\ faults' = faults \cup {Fault(at, 0)}
    /\ pc' = "catch"

\* STEP 1: getOrCreateSource
GetOrCreateSource ==
    /\ pc = "source"
    /\ LET name == queue[i].sourceName
           found == {k \in 1..Len(sources) : sources[k].source_name = name}
       IN  \/ /\ Raise(DbMessage, "source")      \* pool.connect() rejects, before the try
              /\ UNCHANGED <<sources, sourceId, conn>>
           \/ /\ Raise(DbMessage, "source")      \* a query raises: rethrow, release
              /\ conn' = Released(Acquired(conn))
              /\ UNCHANGED <<sources, sourceId>>
           \/ /\ found # {}
              /\ \E k \in found : sourceId' = k
              /\ pc' = "log"
              /\ conn' = Released(Acquired(conn))
              /\ UNCHANGED <<sources, error, faults>>
           \/ /\ found = {}
              /\ sources' = Append(sources, [source_name |-> name, last_scraped |-> 0])
              /\ sourceId' = Len(sources) + 1
              /\ pc' = "log"
              /\ conn' = Released(Acquired(conn))
              /\ UNCHANGED <<error, faults>>
    /\ UNCHANGED <<db, scraping_logs, tx, web, clock, Driver, logId, books, idx,
                   booksAdded, booksUpdated, result, pre, merged, prev, runs, peer>>

\* STEP 2: createScrapingLog
CreateScrapingLog ==
    /\ pc = "log"
    /\ \/ /\ Raise(DbMessage, "log")
          /\ UNCHANGED <<scraping_logs, logId>>
       \/ /\ scraping_logs' = Append(scraping_logs,
                [source_id |-> sourceId, status |-> "running", books_added |-> 0,
                 books_updated |-> 0, errors |-> 0, error_details |-> NULL,
                 started_at |-> clock, completed_at |-> NULL,
                 updates |-> 0])  \* history: UPDATEs applied to the row
          /\ logId' = Len(scraping_logs) + 1
          /\ pc' = "scrape"
          /\ UNCHANGED <<error, faults>>
    /\ UNCHANGED <<db, sources, tx, web, clock, Driver, sourceId, books, idx,
                   booksAdded, booksUpdated, result, pre, merged, prev, runs, peer, conn>>

\* STEP 3: the switch on type and the adapter it calls
Scrape ==
    /\ pc = "scrape"
    /\ LET s == queue[i]
       IN  \/ /\ s.type = "custom" /\ ~s.customSelectors
              /\ Raise("Custom selectors required for custom scraping", "selectors")
              /\ UNCHANGED books
           \/ /\ s.type \notin ValidTypes
              /\ Raise("Unknown scraping type", "type")
              /\ UNCHANGED books
           \/ /\ s.type \in ValidTypes
              /\ s.type = "custom" => s.customSelectors
              /\ \/ /\ Raise(AdapterMessage(s.type), "adapter")
                    /\ UNCHANGED books
                 \/ /\ books' = Scraped(s.type, web)
                    /\ pc' = "connect"
                    /\ UNCHANGED <<error, faults>>
    /\ UNCHANGED <<Tables, peer, conn, web, clock, Driver, sourceId, logId, idx, booksAdded,
                   booksUpdated, result, pre, merged, prev, runs>>

-----------------------------------------------------------------------------
(* saveBooks *)

\* (variant: a saveBooks that rejects an empty batch)
AfterBeginRejectEmpty(n) == IF n = 0 THEN "catch" ELSE "loop"

\* where saveBooks goes after BEGIN with n candidates: `for (const book of books)`
\* has no iteration on an empty array
AfterBegin(n) == IF n = 0 THEN "commit" ELSE "loop"

\* pool.connect() and BEGIN
SaveBooksBegin ==
    /\ pc = "connect"
    /\ \/ /\ Raise(DbMessage, "connect")      \* pool.connect() rejects, before the try
          /\ UNCHANGED <<tx, idx, pre, conn>>
       \/ /\ Raise(DbMessage, "begin")        \* BEGIN raises: ROLLBACK, rethrow, release
          /\ conn' = Released(Acquired(conn))
          /\ UNCHANGED <<tx, idx, pre>>
       \/ /\ tx' = [open |-> TRUE, aborted |-> FALSE, work |-> db]
          /\ pre' = db
          /\ idx' = 1
          /\ pc' = AfterBegin(Len(books))
          /\ conn' = Acquired(conn)
          /\ UNCHANGED <<error, faults>>
    /\ UNCHANGED <<db, sources, scraping_logs, web, clock, Driver, sourceId, logId,
                   books, booksAdded, booksUpdated, result, merged, prev, runs, peer>>

\* a statement of the candidate raises at `stage`: the catch of the loop body
\* logs it; the counters keep what was counted before the statement
BookRaises(b, stage) ==
    /\ tx' = [tx EXCEPT !.aborted = TRUE, !.work = db]
    /\ merged' = Append(merged, 0)
    /\ IF stage \in {"authors", "categories"}
       THEN IF FindBook(tx.work, b) # {}
            THEN booksUpdated' = booksUpdated + 1 /\ UNCHANGED booksAdded
            ELSE booksAdded' = booksAdded + 1 /\ UNCHANGED booksUpdated
       ELSE UNCHANGED <<booksAdded, booksUpdated>>

\* every statement of the candidate succeeds, existingBook being row k (0: none)
BookSaved(b, k) ==
    /\ tx' = [tx EXCEPT !.work = SaveOne(tx.work, b, k, sourceId, clock)]
    /\ merged' = Append(merged, BookIdOf(tx.work, k))
    /\ IF k # 0
       THEN booksUpdated' = booksUpdated + 1 /\ UNCHANGED booksAdded
       ELSE booksAdded' = booksAdded + 1 /\ UNCHANGED booksUpdated

\* one iteration of `for (const book of books)`
SaveBook ==
    /\ pc = "loop"
    /\ idx <= Len(books)
    /\ LET b == books[idx]
       IN  \/ \* the transaction is already aborted: the first statement raises
              /\ tx.aborted
              /\ merged' = Append(merged, 0)
              /\ UNCHANGED <<tx, booksAdded, booksUpdated, faults>>
           \/ /\ ~tx.aborted
              /\ \E stage \in Stages(b) :
                    /\ BookRaises(b, stage)
                    /\ faults' = faults \cup {Fault(stage, idx)}
           \/ /\ ~tx.aborted
              /\ IF FindBook(tx.work, b) = {}
                 THEN BookSaved(b, 0)
                 ELSE \E k \in FindBook(tx.work, b) : BookSaved(b, k)
              /\ UNCHANGED faults
    /\ idx' = idx + 1
    /\ pc' = IF idx + 1 > Len(books) THEN "commit" ELSE "loop"
    /\ UNCHANGED <<db, sources, scraping_logs, web, clock, Driver, sourceId, logId,
                   books, error, result, pre, prev, runs, peer, conn>>

\* the catalog once COMMIT has returned: an aborted transaction ends as a ROLLBACK
Committed(d, t) == IF t.aborted THEN d ELSE t.work

\* (variant: the writes of the batch survive a failed COMMIT)
NotRolledBack(d, t) == t.work

\* the catalog once COMMIT has raised and the catch block has issued ROLLBACK

RolledBack(d, t) == d

\* COMMIT; when it raises, the catch block issues ROLLBACK and rethrows
Commit ==
    /\ pc = "commit"
    /\ \/ /\ db' = Committed(db, tx)
          /\ pc' = "touch"
          /\ UNCHANGED <<error, faults, conn>>
       \/ /\ Raise(DbMessage, "commit")
          /\ db' = RolledBack(db, tx)
          /\ conn' = Released(conn)
       \/ /\ Raise("rollback error", "commit")      \* ROLLBACK raises as well
          /\ db' = RolledBack(db, tx)
          /\ conn' = Released(conn)
    /\ tx' = NoTx
    /\ UNCHANGED <<sources, scraping_logs, web, clock, Driver, sourceId, logId, books,
                   idx, booksAdded, booksUpdated, result, pre, merged, prev, runs, peer>>

\* (variant: a saveBooks without the UPDATE of sources)
NotTouched(srcs, id, now) == srcs

\* UPDATE sources SET last_scraped = CURRENT_TIMESTAMP WHERE source_id = $1
Touched(srcs, id, now) == [srcs EXCEPT ![id].last_scraped = now]

\* UPDATE sources SET last_scraped = CURRENT_TIMESTAMP, then return the counts
TouchSource ==
    /\ pc = "touch"
    /\ \/ /\ sources' = Touched(sources, sourceId, clock)
          /\ pc' = "logok"
          /\ UNCHANGED <<error, faults>>
       \/ /\ Raise(DbMessage, "touch")
          /\ UNCHANGED sources
    /\ conn' = Released(conn)
    /\ UNCHANGED <<db, scraping_logs, tx, web, clock, Driver, sourceId, logId, books,
                   idx, booksAdded, booksUpdated, result, pre, merged, prev, runs, peer>>

-----------------------------------------------------------------------------
(* scrapeAndSave, after saveBooks *)

Given(data, f) == f \in DOMAIN data

\* (variant: updateScrapingLog without its error_details column)
UpdateScrapingLogNoDetails(logs, id, data) ==
    [logs EXCEPT ![id] = [@ EXCEPT
        !.completed_at = IF Given(data, "completed_at") THEN data.completed_at ELSE @,
        !.books_added = IF Given(data, "books_added") THEN data.books_added ELSE @,
        !.books_updated = IF Given(data, "books_updated") THEN data.books_updated ELSE @,
        !.errors = IF Given(data, "errors") THEN data.errors ELSE @,
        !.status = IF Given(data, "status") /\ Truthy(data.status)
                   THEN data.status ELSE @,
        !.updates = @ + 1]]

\* (variant: updateScrapingLog without its books_added and books_updated columns)
UpdateScrapingLogNoCounts(logs, id, data) ==
    [logs EXCEPT ![id] = [@ EXCEPT
        !.completed_at = IF Given(data, "completed_at") THEN data.completed_at ELSE @,
        !.errors = IF Given(data, "errors") THEN data.errors ELSE @,
        !.status = IF Given(data, "status") /\ Truthy(data.status)
                   THEN data.status ELSE @,
        !.error_details = IF Given(data, "error_details") /\ Truthy(data.error_details)
                          THEN data.error_details ELSE @,
        !.updates = @ + 1]]

\* (variant: the UPDATE without its WHERE log_id = $n)
UpdateScrapingLogAll(logs, id, data) ==
    [k \in 1..Len(logs) |-> [logs[k] EXCEPT
        !.completed_at = IF Given(data, "completed_at") THEN data.completed_at ELSE @,
        !.books_added = IF Given(data, "books_added") THEN data.books_added ELSE @,
        !.books_updated = IF Given(data, "books_updated") THEN data.books_updated ELSE @,
        !.errors = IF Given(data, "errors") THEN data.errors ELSE @,
        !.status = IF Given(data, "status") /\ Truthy(data.status)
                   THEN data.status ELSE @,
        !.error_details = IF Given(data, "error_details") /\ Truthy(data.error_details)
                          THEN data.error_details ELSE @,
        !.updates = @ + 1]]

\* updateScrapingLog: UPDATE scraping_logs SET <the columns `data` supplies>

UpdateScrapingLog(logs, id, data) ==
    [logs EXCEPT ![id] = [@ EXCEPT
        !.completed_at = IF Given(data, "completed_at") THEN data.completed_at ELSE @,
        !.books_added = IF Given(data, "books_added") THEN data.books_added ELSE @,
        !.books_updated = IF Given(data, "books_updated") THEN data.books_updated ELSE @,
        !.errors = IF Given(data, "errors") THEN data.errors ELSE @,
        !.status = IF Given(data, "status") /\ Truthy(data.status)
                   THEN data.status ELSE @,
        !.error_details = IF Given(data, "error_details") /\ Truthy(data.error_details)
                          THEN data.error_details ELSE @,
        !.updates = @ + 1]]

\* STEP 5 and the return of the try block
UpdateLogSuccess ==
    /\ pc = "logok"
    /\ \/ /\ scraping_logs' = UpdateScrapingLog(scraping_logs, logId,
                [completed_at |-> clock, books_added |-> booksAdded,
                 books_updated |-> booksUpdated, status |-> "completed"])
          /\ result' = [log_id |-> logId, source_id |-> sourceId,
                        books_added |-> booksAdded, books_updated |-> booksUpdated,
                        errors |-> 0, status |-> "completed", error_details |-> NULL]
          /\ pc' = "return"
          /\ UNCHANGED <<error, faults>>
       \/ /\ Raise(DbMessage, "logok")
          /\ UNCHANGED <<scraping_logs, result>>
    /\ UNCHANGED <<db, sources, tx, web, clock, Driver, sourceId, logId, books, idx,
                   booksAdded, booksUpdated, pre, merged, prev, runs, peer, conn>>

\* the catch block of scrapeAndSave
Catch ==
    /\ pc = "catch"
    /\ \/ /\ logId # 0
          /\ scraping_logs' = UpdateScrapingLog(scraping_logs, logId,
                [completed_at |-> clock, errors |-> 1, status |-> "failed",
                 error_details |-> error])
          /\ UNCHANGED <<error, faults>>
          /\ result' = [log_id |-> logId, source_id |-> sourceId, books_added |-> 0,
                        books_updated |-> 0, errors |-> 1, status |-> "failed",
                        error_details |-> error]
          /\ pc' = "return"
       \/ /\ logId = 0
          /\ UNCHANGED <<scraping_logs, error, faults>>
          /\ result' = [log_id |-> 0, source_id |-> sourceId, books_added |-> 0,
                        books_updated |-> 0, errors |-> 1, status |-> "failed",
                        error_details |-> error]
          /\ pc' = "return"
       \/ \* updateScrapingLog rethrows inside the catch block
          /\ logId # 0
          /\ error' = DbMessage
          /\ faults' = faults \cup {Fault("logfail", 0)}
          /\ pc' = "thrown"
          /\ UNCHANGED <<scraping_logs, result>>
    /\ UNCHANGED <<db, sources, tx, web, clock, Driver, sourceId, logId, books, idx,
                   booksAdded, booksUpdated, pre, merged, prev, runs, peer, conn>>

-----------------------------------------------------------------------------
(* Back in the caller of scrapeAndSave *)

\* the frame of scrapeAndSave is gone
EndRun ==
    /\ sourceId' = 0
    /\ logId' = 0
    /\ books' = <<>>
    /\ idx' = 0
    /\ booksAdded' = 0
    /\ booksUpdated' = 0
    /\ error' = NULL
    /\ result' = NoResult
    /\ pre' = db
    /\ merged' = <<>>
    /\ faults' = {}
    /\ prev' = IF faults = {} /\ result.status = "completed"
               THEN [clean |-> TRUE, merged |-> merged]
               ELSE NotClean

\* scrapeBooks: res.json({success: true, data: result}), or the 500 of its catch
Respond ==
    /\ mode = "single"
    /\ pc \in {"return", "thrown"}
    /\ pc' = "idle"
    /\ EndRun
    /\ queue' = <<>>
    /\ i' = 0
    /\ UNCHANGED <<Tables, peer, conn, web, clock, mode, results, delays, hist, runs>>

\* the ScrapingResult the catch of scrapeMultipleSources' loop body pushes
ThrownResult(msg) ==
    [log_id |-> 0, source_id |-> 0, books_added |-> 0, books_updated |-> 0,
     errors |-> 1, status |-> "failed", error_details |-> msg]

\* (variant: a loop that stops at the first entry whose scrapeAndSave threw)
AfterBreak(p, k, n) ==
    IF k >= n \/ p = "thrown" THEN "summary" ELSE "delay"

\* where the loop of scrapeMultipleSources goes after entry k of n, scrapeAndSave
\* having ended at p: the delay only in the try, and only before another entry

AfterPush(p, k, n) ==
    IF k >= n THEN "summary" ELSE IF p = "return" THEN "delay" ELSE "next"

\* scrapeMultipleSources: results.push(result), in the try or in the catch
PushResult ==
    /\ mode = "multiple"
    /\ pc \in {"return", "thrown"}
    /\ results' = Append(results, IF pc = "return" THEN result ELSE ThrownResult(error))
    /\ hist' = Append(hist, [spec |-> queue[i], faults |-> faults, thrown |-> pc = "thrown"])
    /\ pc' = AfterPush(pc, i, Len(queue))
    /\ EndRun
    /\ UNCHANGED <<Tables, peer, conn, web, clock, queue, mode, i, delays, runs>>

\* await this.delay(2000), then the next iteration
Delay ==
    /\ pc = "delay"
    /\ delays' = delays + 1
    /\ i' = i + 1
    /\ StartRun
    /\ UNCHANGED <<Tables, peer, web, queue, mode, results, hist, prev>>

\* the next iteration right after the catch
NextSource ==
    /\ pc = "next"
    /\ i' = i + 1
    /\ StartRun
    /\ UNCHANGED <<Tables, peer, web, queue, mode, results, delays, hist, prev>>

\* scrapeMultipleSources returns results; the controller answers
RespondMultiple ==
    /\ pc = "summary"
    /\ pc' = "idle"
    /\ queue' = <<>>
    /\ i' = 0
    /\ results' = <<>>
    /\ delays' = 0
    /\ hist' = <<>>
    /\ mode' = "single"
    /\ UNCHANGED <<Tables, peer, conn, web, clock, RunLocals, prev, runs>>

-----------------------------------------------------------------------------
(* A second POST /scrape served at the same time.  Node runs one handler at a
   time but switches at every await, so the statements of two requests
   interleave; each saveBooks takes its own client from the pool (max: 20) and
   so has its own transaction.  The second request is for source S1 with a
   query that matches nothing at the source: its batch is empty. *)

\* everything but the tables the second request writes
Service == <<db, tx, web, clock, pc, Driver, RunLocals, prev, runs, conn>>

\* the second request arrives
PeerScrapeBooks ==
    /\ peer.pc = "none"
    /\ peer' = [peer EXCEPT !.pc = "source"]
    /\ UNCHANGED <<sources, scraping_logs, Service>>

\* its getOrCreateSource
PeerGetOrCreateSource ==
    /\ peer.pc = "source"
    /\ LET name == OpenLibraryS1.sourceName
           found == {k \in 1..Len(sources) : sources[k].source_name = name}
       IN  \/ /\ found # {}
              /\ \E k \in found : peer' = [peer EXCEPT !.sourceId = k, !.pc = "log"]
              /\ UNCHANGED sources
           \/ /\ found = {}
              /\ sources' = Append(sources, [source_name |-> name, last_scraped |-> 0])
              /\ peer' = [peer EXCEPT !.sourceId = Len(sources) + 1, !.pc = "log"]
    /\ UNCHANGED <<scraping_logs, Service>>

\* its createScrapingLog
PeerCreateScrapingLog ==
    /\ peer.pc = "log"
    /\ scraping_logs' = Append(scraping_logs,
          [source_id |-> peer.sourceId, status |-> "running", books_added |-> 0,
           books_updated |-> 0, errors |-> 0, error_details |-> NULL,
           started_at |-> clock, completed_at |-> NULL, updates |-> 0])
    /\ peer' = [peer EXCEPT !.logId = Len(scraping_logs) + 1, !.pc = "scrape"]
    /\ UNCHANGED <<sources, Service>>

\* its adapter returns, with no candidate
PeerScrape ==
    /\ peer.pc = "scrape"
    /\ peer' = [peer EXCEPT !.pc = "connect"]
    /\ UNCHANGED <<sources, scraping_logs, Service>>

\* its saveBooks: pool.connect() and BEGIN
PeerSaveBooksBegin ==
    /\ peer.pc = "connect"
    /\ peer' = [peer EXCEPT !.open = TRUE, !.pc = "commit"]
    /\ UNCHANGED <<sources, scraping_logs, Service>>

\* its COMMIT
PeerCommit ==
    /\ peer.pc = "commit"
    /\ peer' = [peer EXCEPT !.open = FALSE, !.pc = "touch"]
    /\ UNCHANGED <<sources, scraping_logs, Service>>

\* its UPDATE sources SET last_scraped
PeerTouchSource ==
    /\ peer.pc = "touch"
    /\ sources' = Touched(sources, peer.sourceId, clock)
    /\ peer' = [peer EXCEPT !.pc = "logok"]
    /\ UNCHANGED <<scraping_logs, Service>>

\* its STEP 5; the response follows
PeerUpdateLogSuccess ==
    /\ peer.pc = "logok"
    /\ scraping_logs' = UpdateScrapingLog(scraping_logs, peer.logId,
          [completed_at |-> clock, books_added |-> 0, books_updated |-> 0,
           status |-> "completed"])
    /\ peer' = [peer EXCEPT !.pc = "done"]
    /\ UNCHANGED <<sources, Service>>

\* one of its statements raises: saveBooks rolls back where it had begun
PeerRaises ==
    /\ peer.pc \in {"source", "log", "scrape", "connect", "commit", "touch", "logok"}
    /\ peer' = [peer EXCEPT !.open = FALSE, !.pc = "catch"]
    /\ UNCHANGED <<sources, scraping_logs, Service>>

\* its catch block; the response follows, also when the log update raises
PeerCatch ==
    /\ peer.pc = "catch"
    /\ \/ /\ peer.logId # 0
          /\ scraping_logs' = UpdateScrapingLog(scraping_logs, peer.logId,
                [completed_at |-> clock, errors |-> 1, status |-> "failed",
                 error_details |-> DbMessage])
       \/ UNCHANGED scraping_logs
    /\ peer' = [peer EXCEPT !.pc = "done"]
    /\ UNCHANGED <<sources, Service>>

-----------------------------------------------------------------------------
(* Specifications *)

Next ==
    \/ ScrapeBooks
    \/ ScrapeMultipleSources
    \/ WebChanges
    \/ GetOrCreateSource
    \/ CreateScrapingLog
    \/ Scrape
    \/ SaveBooksBegin
    \/ SaveBook
    \/ Commit
    \/ TouchSource
    \/ UpdateLogSuccess
    \/ Catch
    \/ Respond
    \/ PushResult
    \/ Delay
    \/ NextSource
    \/ RespondMultiple

Spec == Init /\ [][Next]_vars

\* only POST /scrape requests for one source, over the richer candidates
ScrapeBooksS1 == ScrapeBooksOf({OpenLibraryS1}, MaxRuns)

CatalogWebChanges == WebChangesTo(CatalogContents, MaxRuns)

NextCatalog ==
    \/ ScrapeBooksS1
    \/ CatalogWebChanges
    \/ GetOrCreateSource
    \/ CreateScrapingLog
    \/ Scrape
    \/ SaveBooksBegin
    \/ SaveBook
    \/ Commit
    \/ TouchSource
    \/ UpdateLogSuccess
    \/ Catch
    \/ Respond

SpecCatalog == InitWith(CatalogContents) /\ [][NextCatalog]_vars

\* a source whose content changes once, after the first run, and is then
\* ingested again and again
RepeatRuns == MaxRuns + 1

ScrapeBooksAgain == ScrapeBooksOf({OpenLibraryS1}, RepeatRuns)

IsbnWebChanges == WebChangesTo(IsbnContents, MaxRuns)

NextTwice ==
    \/ ScrapeBooksAgain
    \/ IsbnWebChanges
    \/ GetOrCreateSource
    \/ CreateScrapingLog
    \/ Scrape
    \/ SaveBooksBegin
    \/ SaveBook
    \/ Commit
    \/ TouchSource
    \/ UpdateLogSuccess
    \/ Catch
    \/ Respond

SpecTwice == InitWith(IsbnContents) /\ [][NextTwice]_vars

\* two POST /scrape requests, each served once, in any interleaving
ScrapeBooksOnce == ScrapeBooksOf({OpenLibraryS1}, 1)

NextConcurrent ==
    \/ ScrapeBooksOnce
    \/ GetOrCreateSource
    \/ CreateScrapingLog
    \/ Scrape
    \/ SaveBooksBegin
    \/ SaveBook
    \/ Commit
    \/ TouchSource
    \/ UpdateLogSuccess
    \/ Catch
    \/ Respond
    \/ PeerScrapeBooks
    \/ PeerGetOrCreateSource
    \/ PeerCreateScrapingLog
    \/ PeerScrape
    \/ PeerSaveBooksBegin
    \/ PeerCommit
    \/ PeerTouchSource
    \/ PeerUpdateLogSuccess
    \/ PeerRaises
    \/ PeerCatch

SpecConcurrent == Init /\ [][NextConcurrent]_vars

-----------------------------------------------------------------------------
(* getOrCreateSource statement by statement: the SELECT and the INSERT are two
   awaits, and the statements of another request may run between them.  The
   schema is not part of the service: an INSERT of a name that a row already
   carries either adds a second row or, under a unique constraint on
   source_name, raises. *)

\* the rows of sources that carry the name
SourcesNamed(name) == {k \in 1..Len(sources) : sources[k].source_name = name}

\* pool.connect(), SELECT source_id FROM sources WHERE source_name = $1
SelectSource ==
    /\ pc = "source"
    /\ LET found == SourcesNamed(queue[i].sourceName)
       IN  \/ /\ found # {}
              /\ \E k \in found : sourceId' = k
              /\ pc' = "log"
              /\ conn' = Released(Acquired(conn))
           \/ /\ found = {}
              /\ pc' = "insert"
              /\ conn' = Acquired(conn)
              /\ UNCHANGED sourceId
    /\ UNCHANGED <<Tables, peer, web, clock, Driver, logId, books, idx, booksAdded,
                   booksUpdated, error, result, pre, merged, faults, prev, runs>>

\* INSERT INTO sources ... RETURNING source_id, then the finally block
InsertSource ==
    /\ pc = "insert"
    /\ LET name == queue[i].sourceName
       IN  \/ /\ sources' = Append(sources, [source_name |-> name, last_scraped |-> 0])
              /\ sourceId' = Len(sources) + 1
              /\ pc' = "log"
              /\ UNCHANGED <<error, faults>>
           \/ /\ SourcesNamed(name) # {}         \* a unique constraint rejects the row
              /\ error' = DbMessage
              /\ faults' = faults \cup {Fault("unique", 0)}
              /\ pc' = "catch"
              /\ UNCHANGED <<sources, sourceId>>
    /\ conn' = Released(conn)
    /\ UNCHANGED <<db, scraping_logs, tx, web, clock, Driver, logId, books, idx,
                   booksAdded, booksUpdated, result, pre, merged, prev, runs, peer>>

\* the SELECT of the second request
PeerSelectSource ==
    /\ peer.pc = "source"
    /\ LET found == SourcesNamed(OpenLibraryS1.sourceName)
       IN  \/ /\ found # {}
              /\ \E k \in found : peer' = [peer EXCEPT !.sourceId = k, !.pc = "log"]
           \/ /\ found = {}
              /\ peer' = [peer EXCEPT !.pc = "insert"]
    /\ UNCHANGED <<sources, scraping_logs, Service>>

\* the INSERT of the second request
PeerInsertSource ==
    /\ peer.pc = "insert"
    /\ LET name == OpenLibraryS1.sourceName
       IN  \/ /\ sources' = Append(sources, [source_name |-> name, last_scraped |-> 0])
              /\ peer' = [peer EXCEPT !.sourceId = Len(sources) + 1, !.pc = "log"]
              /\ UNCHANGED faults
           \/ /\ SourcesNamed(name) # {}         \* a unique constraint rejects the row
              /\ peer' = [peer EXCEPT !.pc = "catch"]
              /\ faults' = faults \cup {Fault("unique", 0)}
              /\ UNCHANGED sources
    /\ UNCHANGED <<db, scraping_logs, tx, web, clock, pc, Driver, sourceId, logId, books,
                   idx, booksAdded, booksUpdated, error, result, pre, merged, prev, runs,
                   conn>>

NextSources ==
    \/ ScrapeBooksOnce
    \/ SelectSource
    \/ InsertSource
    \/ CreateScrapingLog
    \/ Scrape
    \/ SaveBooksBegin
    \/ SaveBook
    \/ Commit
    \/ TouchSource
    \/ UpdateLogSuccess
    \/ Catch
    \/ Respond
    \/ PeerScrapeBooks
    \/ PeerSelectSource
    \/ PeerInsertSource
    \/ PeerCreateScrapingLog
    \/ PeerScrape
    \/ PeerSaveBooksBegin
    \/ PeerCommit
    \/ PeerTouchSource
    \/ PeerUpdateLogSuccess
    \/ PeerRaises
    \/ PeerCatch

SpecSources == Init /\ [][NextSources]_vars

\* one POST /scrape for any of the four adapters, on a source that serves
\* raw items
ScrapeBooksAdapter == ScrapeBooksOf(AdapterSpecs, 1)

NextAdapter ==
    \/ ScrapeBooksAdapter
    \/ GetOrCreateSource
    \/ CreateScrapingLog
    \/ Scrape
    \/ SaveBooksBegin
    \/ SaveBook
    \/ Commit
    \/ TouchSource
    \/ UpdateLogSuccess
    \/ Catch
    \/ Respond

SpecAdapter == InitWith(RawContents) /\ [][NextAdapter]_vars

-----------------------------------------------------------------------------
(* Properties *)

\* the run is back in its caller with a ScrapingResult
Returned == pc = "return"

\* saveBooks has processed every candidate and not yet issued COMMIT
LoopDone == pc = "commit"

\* a fault of the run itself (not of one candidate)
RunFaults(fs) == {f \in fs : f.idx = 0}

\* candidate j was written to a row that existed before the batch
Updated(j) == merged[j] # 0 /\ merged[j] <= Len(pre.books)

\* C1: when exactly one candidate of a batch raises while it is written, the
\* run still ends 'completed', added + updated is N - 1, and every other
\* candidate was processed and is committed.
C1_SingleFailureIsolated ==
    \A k \in 1..Len(books) :
        (Returned /\ faults = {Fault("write", k)}) =>
            /\ result.status = "completed"
            /\ result.books_added + result.books_updated = Len(books) - 1
            /\ \A j \in (1..Len(books)) \ {k} :
                  /\ merged[j] # 0
                  /\ ByTitle(db, books[j]) # {}

\* C2: a batch whose candidates all carry an ISBN, saved a second time right
\* after it was saved, adds nothing and leaves the number of Book rows as it was.
C2_ReingestByIsbnAddsNothing ==
    (/\ Returned
     /\ prev.clean
     /\ faults = {}
     /\ \A j \in 1..Len(books) : Truthy(books[j].isbn)) =>
        /\ result.books_added = 0
        /\ Len(db.books) = Len(pre.books)

\* C3: two candidates of one batch that the cascade would each match to the
\* same row R of the catalog as it stood before the batch are both written to R.
C3_SameRowSameMerge ==
    (LoopDone /\ faults = {}) =>
        \A j1, j2 \in 1..Len(books) : \A r \in 1..Len(pre.books) :
            (/\ j1 # j2
             /\ FindBook(pre, books[j1]) = {r}
             /\ FindBook(pre, books[j2]) = {r}) =>
                (merged[j1] = r /\ merged[j2] = r)

\* C4: no exception leaves scrapeAndSave.
C4_NeverThrows == pc # "thrown"

\* C5: scrapeMultipleSources runs its entries in order, pushes one result per
\* entry at the entry's position, a failed run gives a 'failed' result, and
\* all entries have run when it returns.
C5_OneResultPerEntry ==
    mode = "multiple" =>
        /\ Len(results) = Len(hist)
        /\ Len(results) <= Len(queue)
        /\ \A k \in 1..Len(results) :
              /\ hist[k].spec = queue[k]
              /\ results[k].source_id # 0 =>
                    sources[results[k].source_id].source_name = queue[k].sourceName
              /\ (hist[k].thrown \/ RunFaults(hist[k].faults) # {}) =>
                    results[k].status = "failed"
        /\ pc = "summary" => Len(results) = Len(queue)
        /\ pc \notin {"idle", "summary", "delay", "next"} => i = Len(results) + 1

\* a request of two entries has returned, the first entry's run having failed
C5_Witness ==
    /\ pc = "summary"
    /\ Len(queue) = 2
    /\ hist[1].thrown
    /\ Fault("adapter", 0) \in hist[2].faults
    /\ results[1].status = "failed"

MergeFields == {"subtitle", "publisher", "pages", "description", "cover_image_url", "isbn"}

\* C6: a non-null merge field of a Book row never becomes null, in the
\* committed catalog or inside a batch; an update keeps the stored value where
\* the candidate has none and stores the candidate's value where it has one.
C6_NeverErased ==
    [][/\ \A k \in 1..Len(db.books) : \A f \in MergeFields :
             db.books[k][f] # NULL =>
                (k <= Len(db'.books) /\ db'.books[k][f] # NULL)
       /\ (pc = "loop" /\ ~tx.aborted /\ ~tx'.aborted /\ merged'[idx] <= Len(tx.work.books)) =>
             \A f \in MergeFields :
                tx'.work.books[merged'[idx]][f] =
                    IF books[idx][f] # NULL THEN books[idx][f]
                    ELSE tx.work.books[merged'[idx]][f]]_vars

\* an update was committed that kept a publisher the candidate did not carry
\* and stored an ISBN the candidate carried
C6_Witness ==
    /\ Returned
    /\ faults = {}
    /\ \E j \in 1..Len(books) :
          /\ Updated(j)
          /\ books[j].publisher = NULL
          /\ pre.books[merged[j]].publisher # NULL
          /\ db.books[merged[j]].publisher = pre.books[merged[j]].publisher
    /\ \E j \in 1..Len(books) :
          /\ Updated(j)
          /\ books[j].subtitle # NULL
          /\ pre.books[merged[j]].subtitle = NULL
          /\ db.books[merged[j]].subtitle = books[j].subtitle

NoIsbn(b) == ~Truthy(b.isbn)

SameTitleYear(a, b) ==
    a.title = b.title /\ a.publication_year = b.publication_year

\* C7: two candidates without ISBN, with the same title and publication_year,
\* end on one Book row: in one batch the later one is an update of the row the
\* earlier one was written to, and a candidate ingested again in the next
\* batch is an update of the row it was written to before.
C7_TitleYearCollapses ==
    (pc \in {"loop", "commit"} /\ ~tx.aborted) =>
        /\ \A j1, j2 \in 1..Len(merged) :
              (/\ j1 < j2
               /\ NoIsbn(books[j1]) /\ NoIsbn(books[j2])
               /\ SameTitleYear(books[j1], books[j2])) =>
                  /\ merged[j2] = merged[j1]
                  /\ Cardinality(ByTitle(tx.work, books[j1])) = 1
        /\ prev.clean =>
              \A j \in 1..Len(merged) :
                  NoIsbn(books[j]) => (Updated(j) /\ merged[j] = prev.merged[j])

\* the second of two such candidates of one batch was written to the row the
\* first one had inserted, found by title and year
C7_Witness ==
    /\ LoopDone
    /\ ~tx.aborted
    /\ Len(books) = 2
    /\ NoIsbn(books[1]) /\ NoIsbn(books[2])
    /\ SameTitleYear(books[1], books[2])
    /\ books[1] # books[2]
    /\ Truthy(books[1].publication_year)
    /\ merged[1] = Len(pre.books) + 1
    /\ merged[2] = merged[1]

\* C8: the batch [{title T, isbn X}, {title T, no isbn, no year}] on a catalog
\* that has neither T nor X returns added = 1, updated = 1 and leaves one row
\* titled T.
C8_TitleOnlyMatch ==
    (/\ Returned
     /\ faults = {}
     /\ Len(books) = 2
     /\ Truthy(books[1].isbn)
     /\ books[2].isbn = NULL /\ books[2].publication_year = NULL
     /\ books[2].title = books[1].title
     /\ ByTitle(pre, books[1]) = {} /\ ByIsbn(pre, books[1]) = {}) =>
        /\ result.books_added = 1
        /\ result.books_updated = 1
        /\ Cardinality(ByTitle(db, books[1])) = 1
        /\ Len(db.books) = Len(pre.books) + 1
        /\ merged[2] = merged[1]

\* such a batch has been saved
C8_Witness ==
    /\ Returned
    /\ faults = {}
    /\ Len(books) = 2
    /\ Truthy(books[1].isbn)
    /\ books[2].isbn = NULL /\ books[2].publication_year = NULL
    /\ books[2].title = books[1].title
    /\ ByTitle(pre, books[1]) = {} /\ ByIsbn(pre, books[1]) = {}
    /\ result.books_added = 1
    /\ db.books[merged[1]].isbn = books[1].isbn

\* C9: when COMMIT raises, the catalog is what it was before the batch,
\* saveBooks raises, and the run is reported 'failed'.
C9_CommitFailureRollsBack ==
    /\ Fault("commit", 0) \in faults =>
          /\ db = pre
          /\ tx = NoTx
          /\ pc \in {"catch", "return", "thrown"}
          /\ error # NULL
          /\ Returned => (result.status = "failed" /\ result.books_added = 0
                          /\ result.books_updated = 0)
    /\ \A k \in 1..Len(hist) :
          Fault("commit", 0) \in hist[k].faults => results[k].status = "failed"

\* COMMIT raised on a batch that had written a book, and the run has returned
C9_Witness ==
    /\ Returned
    /\ faults = {Fault("commit", 0)}
    /\ \E j \in 1..Len(merged) : merged[j] # 0
    /\ result.status = "failed"
    /\ scraping_logs[logId].status = "failed"

\* C10: when the adapter raises, saveBooks is not invoked, the log row is
\* closed 'failed' with errors = 1 and the adapter's message, and the result
\* is 'failed' with zero added and updated and errors = 1.
C10_AdapterFailure ==
    Fault("adapter", 0) \in faults =>
        /\ tx = NoTx /\ idx = 0 /\ merged = <<>> /\ db = pre
        /\ pc \in {"catch", "return", "thrown"}
        /\ Returned =>
              /\ scraping_logs[logId].status = "failed"
              /\ scraping_logs[logId].errors = 1
              /\ scraping_logs[logId].error_details = AdapterMessage(queue[i].type)
              /\ result.status = "failed"
              /\ result.books_added = 0
              /\ result.books_updated = 0
              /\ result.errors = 1
              /\ result.error_details = AdapterMessage(queue[i].type)
              /\ result.log_id = logId

\* the adapter raised and the run has returned
C10_Witness ==
    /\ Returned
    /\ faults = {Fault("adapter", 0)}
    /\ scraping_logs[logId].status = "failed"
    /\ result.status = "failed"

Terminal == {"completed", "failed"}

\* C11: a run creates at most one ScrapingLog row, created 'running'; a row
\* only moves from 'running' to 'completed' or to 'failed', by the one UPDATE
\* it ever receives, and a terminal row never changes again.
C11_LogLifecycle ==
    [][/\ Len(scraping_logs') \in {Len(scraping_logs), Len(scraping_logs) + 1}
       /\ Len(scraping_logs') > Len(scraping_logs) =>
             /\ logId = 0
             /\ logId' = Len(scraping_logs')
             /\ scraping_logs'[logId'].status = "running"
             /\ scraping_logs'[logId'].updates = 0
             /\ Len(scraping_logs') <= runs'
       /\ (logId # 0 /\ logId' # logId) =>
             pc' \in {"idle", "source", "delay", "next", "summary"}
       /\ \A k \in 1..Len(scraping_logs) :
             /\ scraping_logs[k].status \in Terminal =>
                   scraping_logs'[k] = scraping_logs[k]
             /\ scraping_logs'[k] # scraping_logs[k] =>
                   /\ k = logId
                   /\ scraping_logs[k].status = "running"
                   /\ scraping_logs'[k].status \in Terminal
                   /\ scraping_logs[k].updates = 0
                   /\ scraping_logs'[k].updates = 1]_vars

\* two runs are over, one row closed 'completed' and the other 'failed'
C11_Witness ==
    /\ pc = "idle"
    /\ Len(scraping_logs) = 2
    /\ scraping_logs[1].status = "completed" /\ scraping_logs[1].updates = 1
    /\ scraping_logs[2].status = "failed" /\ scraping_logs[2].updates = 1

\* C12: no run finishes, by returning or by throwing, while the log row it
\* created is still 'running'.
C12_LogClosed ==
    (pc \in {"return", "thrown"} /\ logId # 0) =>
        scraping_logs[logId].status \in Terminal

\* C13: added + updated is the number of candidates whose every step
\* completed; a candidate whose linking raised is in neither count.
C13_CountsOnlySaved ==
    pc \in {"loop", "commit"} =>
        booksAdded + booksUpdated = Cardinality({j \in 1..Len(merged) : merged[j] # 0})

\* the BookAuthor rows of a book
AuthorsOf(c, bookId) == {r \in c.book_authors : r.book_id = bookId}

\* the names of a list that STEP 3 links
Linked(names) ==
    {Trim(names[n]) : n \in {m \in 1..Len(names) : Truthy(names[m]) /\ Truthy(Trim(names[m]))}}

\* C14: relinking the authors of a book twice with one list leaves the
\* BookAuthor and Author rows the first relinking left, one association per
\* distinct author; a batch saved a second time leaves every association as
\* it was.
C14_RelinkIdempotent ==
    /\ (Returned /\ faults = {}) =>
          \A bookId \in 1..Len(db.books) : \A names \in AuthorLists :
              LET c1 == RelinkAuthors(db, bookId, names)
                  c2 == RelinkAuthors(c1, bookId, names)
              IN  /\ c2.book_authors = c1.book_authors
                  /\ c2.authors = c1.authors
                  /\ \A r1, r2 \in AuthorsOf(c1, bookId) :
                        r1.author_id = r2.author_id => r1 = r2
                  /\ names # <<>> =>
                        {c1.authors[r.author_id] : r \in AuthorsOf(c1, bookId)} = Linked(names)
    /\ (Returned /\ prev.clean /\ faults = {}) =>
          db.book_authors = pre.book_authors

\* a committed book has two authors in an order that relinking would change
C14_Witness ==
    /\ Returned
    /\ faults = {}
    /\ \E bookId \in 1..Len(db.books) :
          /\ Cardinality(AuthorsOf(db, bookId)) = 2
          /\ RelinkAuthors(db, bookId, <<"A1", "A2">>).book_authors # db.book_authors

\* the names of the categories linked to a book
CategoriesOf(c, bookId) ==
    {c.categories[r.category_id] : r \in {q \in c.book_categories : q.book_id = bookId}}

\* C15: the categories linked to a book only grow, in the committed catalog
\* and inside a batch; saving a candidate leaves the book with the categories
\* it had plus the candidate's, and changes no BookCategory row when the
\* candidate's categories were all linked already.
C15_CategoriesAdditive ==
    [][/\ db.book_categories \subseteq db'.book_categories
       /\ (tx.open /\ tx'.open /\ ~tx'.aborted) =>
             tx.work.book_categories \subseteq tx'.work.book_categories
       /\ (pc = "loop" /\ tx'.open /\ ~tx'.aborted) =>
             /\ CategoriesOf(tx'.work, merged'[idx]) =
                   CategoriesOf(tx.work, merged'[idx]) \cup Linked(books[idx].categories)
             /\ Linked(books[idx].categories) \subseteq CategoriesOf(tx.work, merged'[idx]) =>
                   tx'.work.book_categories = tx.work.book_categories]_vars

\* a book that had one category before the batch has two after it
C15_Witness ==
    /\ Returned
    /\ faults = {}
    /\ \E bookId \in 1..Len(pre.books) :
          /\ Cardinality(CategoriesOf(pre, bookId)) = 1
          /\ Cardinality(CategoriesOf(db, bookId)) = 2

\* no two rows of a table of names carry the same name
Distinct(names) == \A a, b \in 1..Len(names) : names[a] = names[b] => a = b

SourceNames == [k \in 1..Len(sources) |-> sources[k].source_name]

\* C16: no two Source rows, no two Author rows and no two Category rows share
\* a name, in the committed catalog and inside a batch; the id a run holds is
\* the id of the row that carries its source's name.
C16_NamesUnique ==
    /\ Distinct(SourceNames)
    /\ Distinct(db.authors) /\ Distinct(db.categories)
    /\ Distinct(tx.work.authors) /\ Distinct(tx.work.categories)
    /\ sourceId # 0 => sources[sourceId].source_name = queue[i].sourceName

\* a second run on the same source has saved two candidates of one author
C16_Witness ==
    /\ Returned
    /\ faults = {}
    /\ runs = 2
    /\ Len(scraping_logs) = 2
    /\ Len(sources) = 1
    /\ Len(books) = 2
    /\ books[1].authors = <<"A1">> /\ books[2].authors = <<"A1">>
    /\ db.authors = <<"A1">>
    /\ db.categories = <<"K1">>

\* C17: while scrapeMultipleSources works on entry i it has taken i - 1
\* delays, one before every entry but the first, and it has taken one less
\* than it has entries when it returns.
C17_DelayBetweenRuns ==
    (mode = "multiple" /\ pc \notin {"idle", "delay", "next"}) => delays = i - 1

\* C18: a run whose adapter returned no candidate, and in which no statement
\* raised, ends 'completed' with books_added = 0, books_updated = 0 and
\* errors = 0, in its result and in its log row, and leaves the catalog as it was.
C18_EmptyBatchCompletes ==
    (Returned /\ faults = {} /\ books = <<>>) =>
        /\ result.status = "completed"
        /\ result.books_added = 0 /\ result.books_updated = 0 /\ result.errors = 0
        /\ scraping_logs[logId].status = "completed"
        /\ scraping_logs[logId].books_added = 0
        /\ scraping_logs[logId].books_updated = 0
        /\ scraping_logs[logId].errors = 0
        /\ db = pre

\* a custom-selector run on a page without a matching container has returned
C18_Witness ==
    /\ Returned
    /\ faults = {}
    /\ web = <<>>
    /\ books = <<>>
    /\ queue[i].type = "custom"
    /\ result.status = "completed"
    /\ sources[sourceId].last_scraped = clock

\* every association row of a catalog references rows the catalog has
Referenced(c) ==
    /\ \A r \in c.book_authors :
          r.book_id \in 1..Len(c.books) /\ r.author_id \in 1..Len(c.authors)
    /\ \A r \in c.book_categories :
          r.book_id \in 1..Len(c.books) /\ r.category_id \in 1..Len(c.categories)

\* C20: every BookAuthor row references an existing Book and Author and every
\* BookCategory row an existing Book and Category, in the committed catalog
\* and after each candidate of a batch.
C20_NoDanglingLinks == Referenced(db) /\ Referenced(tx.work)

\* a batch has committed a new book linked to a new author and a new category
C20_Witness ==
    /\ Returned
    /\ faults = {}
    /\ \E r \in db.book_authors :
          r.book_id > Len(pre.books) /\ r.author_id > Len(pre.authors)
    /\ \E r \in db.book_categories :
          r.book_id > Len(pre.books) /\ r.category_id > Len(pre.categories)

\* catalog transactions begun and not yet committed or rolled back
Transactions == (IF tx.open THEN 1 ELSE 0) + (IF peer.open THEN 1 ELSE 0)

\* adapters that have been called and have not returned
Fetches == (IF pc = "scrape" THEN 1 ELSE 0) + (IF peer.pc = "scrape" THEN 1 ELSE 0)

\* C19: at every moment at most one catalog transaction is open and at most
\* one external fetch is in progress, over all requests being served.
C19_OneAtATime == Transactions <= 1 /\ Fetches <= 1

\* C22: a candidate is written to a row with its non-empty ISBN when there is
\* one; else to a row with its title and year when it has a year and there is
\* one; else to a row with its title when there is one; else to a new row.
C22_CascadeOrder ==
    [][(pc = "loop" /\ ~tx'.aborted) =>
          LET b == books[idx]
              c == tx.work
              m == merged'[idx]
          IN  IF Truthy(b.isbn) /\ ByIsbn(c, b) # {}
              THEN m \in ByIsbn(c, b)
              ELSE IF Truthy(b.title) /\ Truthy(b.publication_year) /\ ByTitleYear(c, b) # {}
              THEN m \in ByTitleYear(c, b)
              ELSE IF Truthy(b.title) /\ ByTitle(c, b) # {}
              THEN m \in ByTitle(c, b)
              ELSE m = Len(c.books) + 1]_vars

\* a candidate whose ISBN is on row A and whose title is on another row B
\* was written to A
C22_Witness ==
    /\ Returned
    /\ faults = {}
    /\ \E j \in 1..Len(books) : \E rowB \in 1..Len(pre.books) :
          /\ Updated(j)
          /\ merged[j] # rowB
          /\ pre.books[merged[j]].isbn = books[j].isbn
          /\ pre.books[merged[j]].title # books[j].title
          /\ pre.books[rowB].title = books[j].title

\* C23: after a non-empty author list is linked, the book has one BookAuthor
\* row per distinct non-blank trimmed name of the list, no other row, and the
\* positions 1..k for its k names.
C23_AuthorPositions ==
    (Returned /\ faults = {}) =>
        \A bookId \in 1..Len(db.books) : \A names \in AuthorLists :
            names # <<>> =>
                LET c1 == RelinkAuthors(db, bookId, names)
                IN  /\ {c1.authors[r.author_id] : r \in AuthorsOf(c1, bookId)} = Linked(names)
                    /\ {r.author_position : r \in AuthorsOf(c1, bookId)} =
                          1..Cardinality(Linked(names))

\* C24: last_scraped of a source only changes by the UPDATE that follows a
\* COMMIT that returned; it is not the time of a run whose adapter or COMMIT
\* raised, and it is the time of the run once that UPDATE is done, whatever
\* the number of candidates.
C24_TouchAfterCommit ==
    /\ \A k \in 1..Len(sources) : sources[k].last_scraped <= clock
    /\ (sourceId # 0 /\ pc \in {"log", "scrape", "connect", "loop", "commit", "touch"}) =>
          sources[sourceId].last_scraped < clock
    /\ (sourceId # 0 /\ faults \cap {Fault("adapter", 0), Fault("commit", 0)} # {}) =>
          sources[sourceId].last_scraped < clock
    /\ pc = "logok" => sources[sourceId].last_scraped = clock
    /\ (Returned /\ result.status = "completed") => sources[sourceId].last_scraped = clock

\* the second run on a source has committed an empty batch and advanced
\* last_scraped
C24_Witness ==
    /\ pc = "logok"
    /\ books = <<>>
    /\ runs = 2
    /\ Len(sources) = 1
    /\ sources[sourceId].last_scraped = 2

\* C25: a returned 'completed' result has its log row 'completed' with the
\* counts saveBooks returned; a returned 'failed' result with a log_id has
\* its log row 'failed' with errors = 1 and the result's error_details.
C25_ResultMatchesLog ==
    /\ Returned =>
          /\ result.status \in Terminal
          /\ result.log_id = logId
          /\ result.status = "completed" =>
                /\ scraping_logs[logId].status = "completed"
                /\ result.books_added = booksAdded
                /\ result.books_updated = booksUpdated
                /\ scraping_logs[logId].books_added = booksAdded
                /\ scraping_logs[logId].books_updated = booksUpdated
          /\ (result.status = "failed" /\ result.log_id # 0) =>
                /\ scraping_logs[logId].status = "failed"
                /\ scraping_logs[logId].errors = 1
                /\ scraping_logs[logId].error_details = result.error_details
    /\ \A k \in 1..Len(results) :
          results[k].log_id # 0 =>
              /\ scraping_logs[results[k].log_id].status = results[k].status
              /\ scraping_logs[results[k].log_id].books_added = results[k].books_added
              /\ scraping_logs[results[k].log_id].books_updated = results[k].books_updated

\* a request of two entries: a run that added a book, then a run that failed
C25_Witness ==
    /\ pc = "summary"
    /\ Len(results) = 2
    /\ results[1].status = "completed" /\ results[1].books_added > 0
    /\ results[2].status = "failed" /\ results[2].log_id = 2
    /\ scraping_logs[2].error_details = results[2].error_details

Titles(c) == [k \in 1..Len(c.books) |-> c.books[k].title]

\* C27: no two Book rows have the same title, in the committed catalog and
\* inside a batch.
C27_TitlesUnique == Distinct(Titles(db)) /\ Distinct(Titles(tx.work))

\* a candidate with the title of a row and another ISBN was merged into it,
\* the catalog holding more than one row
C27_Witness ==
    /\ Returned
    /\ faults = {}
    /\ Len(db.books) >= 2
    /\ \E j \in 1..Len(books) :
          /\ Updated(j)
          /\ Truthy(books[j].isbn)
          /\ pre.books[merged[j]].isbn # NULL
          /\ pre.books[merged[j]].isbn # books[j].isbn
          /\ pre.books[merged[j]].title = books[j].title

\* C29: when scrapeAndSave returns a 'failed' result, the Book, BookAuthor
\* and BookCategory rows are what they were before the run.
C29_FailedRunWritesNothing ==
    (Returned /\ result.status = "failed") => db = pre

FrameFields ==
    {"title", "publication_year", "language", "source_id", "source_url", "pdf_url",
     "download_url"}

\* C30: the update of a matched row leaves its title, publication_year,
\* language, source_id, source_url, pdf_url and download_url as they were,
\* and leaves every other Book row as it was.
C30_UpdateFrame ==
    [][(pc = "loop" /\ ~tx'.aborted /\ merged'[idx] <= Len(tx.work.books)) =>
          /\ Len(tx'.work.books) = Len(tx.work.books)
          /\ \A k \in 1..Len(tx.work.books) :
                IF k = merged'[idx]
                THEN \A f \in FrameFields : tx'.work.books[k][f] = tx.work.books[k][f]
                ELSE tx'.work.books[k] = tx.work.books[k]]_vars

\* a row was updated by a candidate with another publication_year, next to
\* another row, and kept its own
C30_Witness ==
    /\ Returned
    /\ faults = {}
    /\ Len(pre.books) >= 2
    /\ \E j \in 1..Len(books) :
          /\ Updated(j)
          /\ books[j].publication_year # pre.books[merged[j]].publication_year
          /\ Truthy(books[j].publication_year)
          /\ db.books[merged[j]].publication_year = pre.books[merged[j]].publication_year
          /\ db.books[merged[j]].last_updated = clock

\* a fetched item that parses and has a title after cleaning, other than the
\* placeholder
Yielded(item) ==
    /\ ~Raises(item)
    /\ Truthy(CleanText(item.title))
    /\ CleanText(item.title) # "Unknown Title"

\* C21: an adapter returns, in the order they were fetched, the items that
\* parsed and have a cleaned title other than the placeholder, each with its
\* cleaned title; scrapeProjectGutenberg returns the first 20 of them.
C21_AdapterYields ==
    pc = "connect" =>
        LET kept == SelectSeq(web, Yielded)
            n == IF queue[i].type = "gutenberg" /\ Len(kept) > GutenbergLimit
                 THEN GutenbergLimit ELSE Len(kept)
        IN  /\ Len(books) = n
            /\ \A j \in 1..n :
                  /\ books[j].title = CleanText(kept[j].title)
                  /\ books[j].authors = kept[j].authors
                  /\ books[j].categories = kept[j].categories

\* scrapeProjectGutenberg has returned 20 of the 21 good entries of a page
\* whose first entry did not parse and whose second has a blank title
C21_Witness ==
    /\ pc = "connect"
    /\ queue[i].type = "gutenberg"
    /\ Len(web) = GutenbergLimit + 3
    /\ Raises(web[1])
    /\ Len(books) = GutenbergLimit
    /\ books[1].title = "G1"
    /\ books[GutenbergLimit].title = "G20"

\* the positions at which a run of exactly four digits starts
ExactlyFourDigitsAt(cs) ==
    {p \in FourDigitsAt(cs) :
        /\ p = 1 \/ ~IsDigit(cs[p - 1])
        /\ p + 3 = Len(cs) \/ ~IsDigit(cs[p + 4])}

\* C26: the year an adapter extracts from a date text is the first run of
\* exactly four digits of the text, and none when the text has no such run.
C26_ExactlyFourDigits ==
    (/\ pc = "connect"
     /\ queue[i].type \in {"googlebooks", "custom"}
     /\ Len(web) = 1 /\ Len(books) = 1) =>
        LET t == web[1].publication_year
            cs == Chars(t)
            ps == ExactlyFourDigitsAt(cs)
        IN  books[1].publication_year =
                IF ~Truthy(t) \/ ps = {} THEN NULL
                ELSE LET p == CHOOSE x \in ps : \A y \in ps : x <= y
                     IN  cs[p] \o cs[p + 1] \o cs[p + 2] \o cs[p + 3]

\* C28: no two Book rows have the same non-null ISBN.
C28_IsbnUnique ==
    \A a, b \in 1..Len(db.books) :
        (a # b /\ db.books[a].isbn # NULL) => db.books[a].isbn # db.books[b].isbn

\* the BookCategory rows of a book
CategoryRowsOf(c, bookId) == {r \in c.book_categories : r.book_id = bookId}

\* C31: linking an empty author list to a book leaves its BookAuthor rows as
\* they were, linking an empty category list leaves its BookCategory rows as
\* they were, and linking any author list to a book that has author links
\* leaves it with at least one.
C31_LinksKept ==
    (Returned /\ faults = {}) =>
        \A bookId \in 1..Len(db.books) :
            /\ AuthorsOf(RelinkAuthors(db, bookId, <<>>), bookId) = AuthorsOf(db, bookId)
            /\ CategoryRowsOf(RelinkCategories(db, bookId, <<>>, 1), bookId) =
                  CategoryRowsOf(db, bookId)
            /\ \A names \in AuthorLists :
                  AuthorsOf(db, bookId) # {} =>
                      AuthorsOf(RelinkAuthors(db, bookId, names), bookId) # {}

\* C32: every client that getOrCreateSource or saveBooks has taken from the
\* pool is released once: a client is out only between BEGIN and the end of
\* saveBooks, and at every other moment of the run, whatever raised, as many
\* clients have been released as were taken.
C32_ReleasedOnce ==
    /\ conn.acquired - conn.released = IF pc \in {"loop", "commit", "touch"} THEN 1 ELSE 0
    /\ conn.acquired <= 2

\* a run returned after COMMIT and then the ROLLBACK of the catch block
\* raised: both clients it had taken are back in the pool
C32_Witness ==
    /\ Returned
    /\ error = "rollback error"
    /\ Fault("commit", 0) \in faults
    /\ conn = [acquired |-> 2, released |-> 2]

\* C33: when two requests for one source name not yet in the catalog run
\* getOrCreateSource at the same time, one row with the name is inserted and
\* both obtain its id: no second row, no INSERT rejected, no two ids.
C33_OneSourceRow ==
    /\ Cardinality(SourcesNamed(OpenLibraryS1.sourceName)) <= 1
    /\ Fault("unique", 0) \notin faults
    /\ (sourceId # 0 /\ peer.sourceId # 0) => sourceId = peer.sourceId

\* a text without a blank at either end and without two blanks in a row
Normal(ts) ==
    /\ ts # <<>> => ~IsSpace(ts[1]) /\ ~IsSpace(ts[Len(ts)])
    /\ \A p \in 1..(Len(ts) - 1) : ~(IsSpace(ts[p]) /\ IsSpace(ts[p + 1]))

\* C34: cleanText of a cleaned text is that text; a defined result has no
\* white space at either end and no two white-space characters in a row; the
\* result for a missing or empty text is undefined.  Stated of the titles an
\* adapter has cleaned and of the ISBN texts scrapeCustomWebsite has cleaned.
C34_CleanTextIdempotent ==
    pc = "connect" =>
        /\ \A j \in 1..Len(web) :
              ~Raises(web[j]) =>
                  LET t == web[j].title
                      c == CleanText(t)
                  IN  /\ CleanText(c) = c
                      /\ c # NULL => Normal(Tokens(c))
                      /\ t \in {NULL, EMPTY} => c = NULL
        /\ queue[i].type = "custom" =>
              \A j \in 1..Len(books) : CleanText(books[j].isbn) = books[j].isbn

=============================================================================
